---- MODULE Spec2Model ----
(***************************************************************************)
(* Roasters Cafe data-entry application (src/main.py).                     *)
(*                                                                         *)
(* Three stages (Recebimiento, Trillado, Perfilado), each with a "show     *)
(* form" GET handler and a "submit form" POST handler.  A POST handler     *)
(* reads the stage worksheet, derives an identifier, compares it with the  *)
(* identifiers already stored and appends a row when it finds none.        *)
(*                                                                         *)
(* Representation.  A Python str is a sequence of one-character strings,   *)
(* so slicing, upper-casing, replace and concatenation are computed.       *)
(* A float is an integer count of hundredths.  A worksheet is a sequence   *)
(* of rows, a row a sequence of cells, a cell a str.  Python's None is the *)
(* one-element sequence None below, which no str equals.                   *)
(***************************************************************************)
EXTENDS Integers, Sequences, FiniteSets, TLC

VARIABLES
    sheets,    \* the spreadsheet: worksheet name -> rows (get_all_values)
    req,       \* the request the last finished handler served
    resp,      \* the response the last finished handler returned
    inflight   \* worker -> the POST it is handling between two store calls

vars == <<sheets, req, resp, inflight>>

\* ------------------------------------------------------------------ bounds

\* Most rows the model lets the handlers append to the three worksheets
\* together (each worksheet starts with at most one row of its own).
MaxRows == 2

\* ----------------------------------------------------------------- strings

None == <<"<None>">>

Min(a, b) == IF a < b THEN a ELSE b

\* str.upper() on one character, over the alphabet the forms use.
UpperChar(c) ==
    CASE c = "a" -> "A"
      [] c = "b" -> "B"
      [] c = "c" -> "C"
      [] c = "f" -> "F"
      [] c = "h" -> "H"
      [] c = "i" -> "I"
      [] c = "l" -> "L"
      [] c = "n" -> "N"
      [] c = "u" -> "U"
      [] OTHER -> c

\* s.upper()
Upper(s) == [i \in 1..Len(s) |-> UpperChar(s[i])]

\* s[:3]
First3(s) == SubSeq(s, 1, Min(3, Len(s)))

\* s.replace("-", "")
RECURSIVE RemoveDashes(_)
RemoveDashes(s) ==
    IF s = <<>> THEN <<>>
    ELSE IF Head(s) = "-" THEN RemoveDashes(Tail(s))
    ELSE <<Head(s)>> \o RemoveDashes(Tail(s))

\* The cell the store keeps for a float (hundredths), as one token.
FloatCell(n) == <<ToString(n)>>

\* ------------------------------------------------------- identifier rules

\* id_recibimiento, main.py lines 99-101.
DeriveRecibimientoId(fecha, provedor, origen, lote_bolsa) ==
    RemoveDashes(fecha) \o Upper(First3(provedor)) \o Upper(First3(origen))
        \o <<"-">> \o Upper(lote_bolsa)

\* id_trillado = f"{id_recibimiento}-{grano_num}", main.py line 208.
DeriveTrilladoId(id_recibimiento, grano_num) ==
    id_recibimiento \o <<"-">> \o grano_num

\* perda_casca, main.py lines 324-327, both weights in hundredths and the
\* result in hundredths: round(t/p, 2) is the nearest hundredth of t/p (a
\* quotient exactly between two hundredths, which no form below produces,
\* goes up here).
PerdaCasca(muestra_pergamino, muestra_trillado) ==
    IF muestra_pergamino = 0 THEN 0
    ELSE 100 - ((200 * muestra_trillado + muestra_pergamino)
                    \div (2 * muestra_pergamino))

\* ------------------------------------------------------------ form inputs

Yes == <<"y", "e", "s">>
No == <<"n", "o">>
Fecha == <<"2", "0", "2", "4", "-", "0", "3", "-", "0", "5">>

\* What a POST /recebimiento can carry: two suppliers (one shorter than the
\* three-character slice), one origin, two spellings of one lot label, and
\* checkboxes ticked ("yes") or absent (None).
RecibimientoForms ==
    { [fecha |-> Fecha, provedor |-> p, ciudad |-> <<>>,
       origen |-> <<"H", "u", "i", "l", "a">>, lote_bolsa |-> l,
       cantidad_kg |-> 0, humedad |-> 0, motorista |-> <<>>,
       vehiculo_placa |-> <<>>, observacion |-> <<>>,
       libre_contaminacion |-> None, vehiculo_sin_contaminacion |-> Yes,
       buen_estado |-> None, responsable |-> <<>>] :
         p \in {<<"F", "i", "n", "c", "a">>, <<"f", "i">>},
         l \in {<<"b", "1">>, <<"B", "1">>} }

\* Identifiers a POST /trillado can name without the dropdown offering them,
\* and the batch numbers; both may hold a hyphen.
TypedRecibimientoIds == {<<"A">>, <<"A", "-", "B">>}
GranoNums == {<<"C">>, <<"B", "-", "C">>}

\* Identifiers a POST /perfilado can name without the dropdown offering them.
TypedTrilladoIds == {<<"A", "-", "C">>, <<"X", "-", "Y">>}
MuestraPergaminos == {0, 10000}

\* ------------------------------------------------------------- the store

Sheets == {"Recebimiento", "Trillado", "Perfilado"}

\* worksheet.get_all_values() of get_sheet(name).
get_all_values(name) == sheets[name]

\* insert_row(row, 1) in the place of append_row(row).
append_row_AtTop(name, row) == [sheets EXCEPT ![name] = <<row>> \o @]

\* worksheet.append_row(row) of get_sheet(name): the sheets after it.
append_row(name, row) == [sheets EXCEPT ![name] = Append(@, row)]

\* rows[1:] if len(rows) > 1 else []
AfterHeader(rows) == IF Len(rows) > 1 THEN Tail(rows) ELSE <<>>

\* [r[0] for r in rows]; evaluated only where no row is empty.
FirstCells(rows) == [i \in 1..Len(rows) |-> rows[i][1]]

\* [r[-1] for r in rows]; evaluated only where no row is empty.
LastCells(rows) == [i \in 1..Len(rows) |-> rows[i][Len(rows[i])]]

\* [r[5] for r in rows if len(r) > 5]
RECURSIVE SixthCells(_)
SixthCells(rows) ==
    IF rows = <<>> THEN <<>>
    ELSE IF Len(Head(rows)) > 5
         THEN <<Head(rows)[6]>> \o SixthCells(Tail(rows))
         ELSE SixthCells(Tail(rows))

\* r[0] and r[-1] raise IndexError on an empty row.
IndexError(rows) == \E i \in 1..Len(rows) : Len(rows[i]) = 0

\* x in list
In(x, list) == \E i \in 1..Len(list) : list[i] = x

\* list[0] if list else ""
FirstOrEmpty(list) == IF list # <<>> THEN list[1] ELSE <<>>

\* ------------------------------------------------------------- responses

Range(list) == {list[i] : i \in 1..Len(list)}

\* templates.TemplateResponse(template, {...}): the context the renderer gets.
\* A handler that passes no selection list has options = <<>>.
TemplateResponse(template, msg, last_submission, defaults, options) ==
    [status |-> 200, template |-> template, msg |-> msg,
     last_submission |-> last_submission, defaults |-> defaults,
     options |-> options]

\* An exception no handler catches: the framework answers 500.
InternalServerError ==
    [status |-> 500, template |-> "", msg |-> None, last_submission |-> None,
     defaults |-> None, options |-> <<>>]

\* An f-string made of a literal and an identifier: the literal is one
\* element (written here without the emoji that opens it in main.py), the
\* identifier's characters follow.
Message(literal, id) == <<literal>> \o id

\* The dict d with one more key.
WithKey(d, key, value) ==
    [k \in DOMAIN d \cup {key} |-> IF k = key THEN value ELSE d[k]]

\* What a POST handler decided: whether it appends, which row, and its answer.
Result(append, row, response) ==
    [append |-> append, row |-> row, response |-> response]

\* ------------------------------------------------- Recebimiento handlers

\* x if x == "yes" else "no", main.py lines 94-96.
Checkbox(x) == IF x = Yes THEN x ELSE No

RecibimientoId(f) ==
    DeriveRecibimientoId(f.fecha, f.provedor, f.origen, f.lote_bolsa)

\* A row that leaves the identifier out of column 0.
RecibimientoRow_NoId(f) ==
    << f.fecha, f.provedor, f.ciudad, f.origen, f.lote_bolsa,
       FloatCell(f.cantidad_kg), FloatCell(f.humedad), f.motorista,
       f.vehiculo_placa, f.observacion, Checkbox(f.libre_contaminacion),
       Checkbox(f.vehiculo_sin_contaminacion), Checkbox(f.buen_estado),
       f.responsable >>

\* row, main.py lines 104-109.
RecibimientoRow(f) ==
    << RecibimientoId(f), f.fecha, f.provedor, f.ciudad, f.origen,
       f.lote_bolsa, FloatCell(f.cantidad_kg), FloatCell(f.humedad),
       f.motorista, f.vehiculo_placa, f.observacion,
       Checkbox(f.libre_contaminacion),
       Checkbox(f.vehiculo_sin_contaminacion), Checkbox(f.buen_estado),
       f.responsable >>

\* defaults, main.py lines 136-151.
RecibimientoDefaults(f) ==
    [f EXCEPT !.libre_contaminacion = Checkbox(@),
              !.vehiculo_sin_contaminacion = Checkbox(@),
              !.buen_estado = Checkbox(@)]

\* A check that misses the row appended last.
RecibimientoExistingIds_DropLast(all_values) ==
    FirstCells(SubSeq(all_values, 1, Len(all_values) - 1))

\* existing_ids, main.py line 112: column 0 of every row, the first included.
RecibimientoExistingIds(all_values) == FirstCells(all_values)

\* submit_form, main.py lines 91-160, on the rows get_all_values returned.
SubmitForm(f, all_values) ==
    IF IndexError(all_values)
    THEN Result(FALSE, <<>>, InternalServerError)
    ELSE LET id == RecibimientoId(f)
             dup == In(id, RecibimientoExistingIds(all_values))
             msg == IF dup
                    THEN Message("Ya esta registrado! ID: ", id)
                    ELSE Message("Registered successfully! ID: ", id)
             defaults == RecibimientoDefaults(f)
         IN  Result(~dup, RecibimientoRow(f),
                 TemplateResponse("recebimiento.html", msg,
                     WithKey(defaults, "id_recibimiento", id), defaults,
                     <<>>))

\* form_page, main.py lines 42-69 (date.today() is the one date of the model).
FormPage ==
    TemplateResponse("recebimiento.html", None, None,
        [fecha |-> Fecha, provedor |-> <<>>, ciudad |-> <<>>,
         origen |-> <<>>, lote_bolsa |-> <<>>, cantidad_kg |-> <<>>,
         humedad |-> <<>>, motorista |-> <<>>, vehiculo_placa |-> <<>>,
         observacion |-> <<>>, libre_contaminacion |-> Yes,
         vehiculo_sin_contaminacion |-> Yes, buen_estado |-> Yes,
         responsable |-> <<>>],
        <<>>)

\* ----------------------------------------------------- Trillado handlers

\* recibimiento_ids, main.py lines 171 and 204.
RecibimientoIds(all_rows) == FirstCells(AfterHeader(all_rows))

\* existing_ids_trillado, main.py line 211: the last cell of each later row.
TrilladoExistingIds(trillado_rows) == LastCells(AfterHeader(trillado_rows))

\* row, main.py line 215.
TrilladoRow(f) ==
    << f.id_recibimiento, f.fecha, f.grano_num, FloatCell(f.cantidad_kg),
       f.observacion, DeriveTrilladoId(f.id_recibimiento, f.grano_num) >>

\* The branch taken with the append moved out of its else.
TrilladoAnswer_NoElse(f, all_rows, dup) ==
    LET id == DeriveTrilladoId(f.id_recibimiento, f.grano_num)
    IN  Result(TRUE, TrilladoRow(f),
            TemplateResponse("trillado.html",
                IF dup
                THEN Message("Ya esta registrado! ID Trillado: ", id)
                ELSE Message("Trillado registrado! ID Trillado: ", id),
                WithKey(f, "id_trillado", id), f,
                RecibimientoIds(all_rows)))

\* trillado_submit_form from its if to its return, main.py lines 212-243.
TrilladoAnswer(f, all_rows, dup) ==
    LET id == DeriveTrilladoId(f.id_recibimiento, f.grano_num)
        msg == IF dup
               THEN Message("Ya esta registrado! ID Trillado: ", id)
               ELSE Message("Trillado registrado! ID Trillado: ", id)
    IN  Result(~dup, TrilladoRow(f),
            TemplateResponse("trillado.html", msg,
                WithKey(f, "id_trillado", id), f,
                RecibimientoIds(all_rows)))

\* A handler that also turns down an id_recibimiento its dropdown lacks.
TrilladoSubmitForm_Validated(f, all_rows, trillado_rows) ==
    IF IndexError(AfterHeader(all_rows))
           \/ IndexError(AfterHeader(trillado_rows))
    THEN Result(FALSE, <<>>, InternalServerError)
    ELSE TrilladoAnswer(f, all_rows,
             \/ In(DeriveTrilladoId(f.id_recibimiento, f.grano_num),
                   TrilladoExistingIds(trillado_rows))
             \/ ~In(f.id_recibimiento, RecibimientoIds(all_rows)))

\* trillado_submit_form, main.py lines 201-243, on the rows the two
\* get_all_values calls returned.
TrilladoSubmitForm(f, all_rows, trillado_rows) ==
    IF IndexError(AfterHeader(all_rows))
           \/ IndexError(AfterHeader(trillado_rows))
    THEN Result(FALSE, <<>>, InternalServerError)
    ELSE TrilladoAnswer(f, all_rows,
             In(DeriveTrilladoId(f.id_recibimiento, f.grano_num),
                TrilladoExistingIds(trillado_rows)))

\* trillado_form_page, main.py lines 166-188.
TrilladoFormPage(all_rows) ==
    IF IndexError(AfterHeader(all_rows))
    THEN InternalServerError
    ELSE LET recibimiento_ids == RecibimientoIds(all_rows)
         IN  TemplateResponse("trillado.html", None, None,
                 [id_recibimiento |-> FirstOrEmpty(recibimiento_ids),
                  fecha |-> Fecha, grano_num |-> <<>>,
                  cantidad_kg |-> <<>>, observacion |-> <<>>],
                 recibimiento_ids)

\* ---------------------------------------------------- Perfilado handlers

\* id_trillado_options, main.py lines 253 and 332.
TrilladoIdOptions(trillado_rows) == SixthCells(AfterHeader(trillado_rows))

\* A check that reads the last column, as the Trillado check does.
PerfiladoExistingIds_LastColumn(perfilado_rows) ==
    LastCells(AfterHeader(perfilado_rows))

\* existing_ids_perfilado, main.py line 338.
PerfiladoExistingIds(perfilado_rows) == FirstCells(AfterHeader(perfilado_rows))

\* The POST /perfilado form: the fields the model varies, the rest at the
\* values the handler's signature gives them (main.py lines 297-322).
PerfiladoForm(id_trillado, muestra_pergamino) ==
    [id_trillado |-> id_trillado, muestra_pergamino |-> muestra_pergamino,
     humedad_pergamino |-> 0, muestra_trillado |-> 9000, malla |-> <<>>,
     densidad |-> 0, humedad_grano_verde |-> 0, negro |-> 0, agrio |-> 0,
     cereza_seca |-> 0, dano_hongo |-> 0, impurezas |-> 0,
     dano_severo_insectos |-> 0, parcial_negro |-> 0, parcial_agrio |-> 0,
     pergamino |-> 0, flotador |-> 0, inmaduro |-> 0, averanado |-> 0,
     concha |-> 0, partido_mordido |-> 0, cascara_pulpa_seca |-> 0,
     dano_leve_insectos |-> 0, perfil |-> <<"Frutos Citricos">>,
     caramelizacion |-> 0, desarrollo |-> 0]

\* row, main.py lines 342-347.
PerfiladoRow(f) ==
    << f.id_trillado, FloatCell(f.muestra_pergamino),
       FloatCell(f.humedad_pergamino), FloatCell(f.muestra_trillado),
       f.malla, FloatCell(f.densidad), FloatCell(f.humedad_grano_verde),
       FloatCell(PerdaCasca(f.muestra_pergamino, f.muestra_trillado)),
       FloatCell(f.negro), FloatCell(f.agrio), FloatCell(f.cereza_seca),
       FloatCell(f.dano_hongo), FloatCell(f.impurezas),
       FloatCell(f.dano_severo_insectos), FloatCell(f.parcial_negro),
       FloatCell(f.parcial_agrio), FloatCell(f.pergamino),
       FloatCell(f.flotador), FloatCell(f.inmaduro), FloatCell(f.averanado),
       FloatCell(f.concha), FloatCell(f.partido_mordido),
       FloatCell(f.cascara_pulpa_seca), FloatCell(f.dano_leve_insectos),
       f.perfil, FloatCell(f.caramelizacion), FloatCell(f.desarrollo) >>

\* perfilado_submit_form, main.py lines 324-389, on the rows the two
\* get_all_values calls returned.
PerfiladoSubmitForm(f, trillado_rows, perfilado_rows) ==
    IF IndexError(AfterHeader(perfilado_rows))
    THEN Result(FALSE, <<>>, InternalServerError)
    ELSE LET id == f.id_trillado
             dup == In(id, PerfiladoExistingIds(perfilado_rows))
             msg == IF dup
                    THEN Message("Ya esta registrado! ID Trillado: ", id)
                    ELSE Message("Perfilado registrado! ID Trillado: ", id)
         IN  Result(~dup, PerfiladoRow(f),
                 TemplateResponse("perfilado.html", msg, f, f,
                     TrilladoIdOptions(trillado_rows)))

\* perfilado_form_page, main.py lines 248-291.
PerfiladoFormPage(trillado_rows) ==
    LET id_trillado_options == TrilladoIdOptions(trillado_rows)
        blank == [k \in DOMAIN PerfiladoForm(<<>>, 0) |-> <<>>]
    IN  TemplateResponse("perfilado.html", None, None,
            [blank EXCEPT !.id_trillado = FirstOrEmpty(id_trillado_options),
                          !.perfil = <<"Frutos Citricos">>],
            id_trillado_options)

\* -------------------------------------------------------------- requests

Request(endpoint, form) == [endpoint |-> endpoint, form |-> form]

\* A worker that handles nothing.
Idle == [pc |-> "idle", endpoint |-> "", form |-> <<>>, all_rows |-> <<>>,
         sheet |-> "", row |-> <<>>, response |-> <<>>]

\* Appends a worker has decided on and not yet sent to the store.
Pending(name) ==
    Cardinality({w \in DOMAIN inflight :
                    inflight[w].pc = "append" /\ inflight[w].sheet = name})

RECURSIVE Total(_)
Total(names) ==
    IF names = {} THEN 0
    ELSE LET n == CHOOSE x \in names : TRUE
         IN  Len(sheets[n]) + Pending(n) + Total(names \ {n})

\* The model stops appending once the worksheets hold MaxRows rows beyond
\* one first row each.
HasRoom == Total(Sheets) < Cardinality(Sheets) + MaxRows

\* What a POST /trillado can name: a typed identifier or one the dropdown of
\* GET /trillado offers.
RecibimientoChoices ==
    TypedRecibimientoIds \cup
        (IF IndexError(AfterHeader(get_all_values("Recebimiento"))) THEN {}
         ELSE Range(RecibimientoIds(get_all_values("Recebimiento"))))

TrilladoFormsOf(ids) ==
    { [id_recibimiento |-> i, fecha |-> Fecha, grano_num |-> g,
       cantidad_kg |-> 0, observacion |-> <<>>] :
         i \in ids, g \in GranoNums }

TrilladoForms == TrilladoFormsOf(RecibimientoChoices)

\* What a POST /perfilado can name: a typed identifier or one the dropdown of
\* GET /perfilado offers.
TrilladoChoices ==
    TypedTrilladoIds
        \cup Range(TrilladoIdOptions(get_all_values("Trillado")))

PerfiladoFormsOf(ids) ==
    { PerfiladoForm(i, m) : i \in ids, m \in MuestraPergaminos }

PerfiladoForms == PerfiladoFormsOf(TrilladoChoices)

\* ------------------------------------- handlers, one request at a time

\* A handler that ran from its first line to its return with no other
\* request in between.
Handled(request, response, stored) ==
    /\ req' = request
    /\ resp' = response
    /\ sheets' = stored
    /\ UNCHANGED inflight

\* home, main.py lines 35-37.
home ==
    Handled(Request("GET /", <<>>),
        [status |-> 200, template |-> "",
         msg |-> <<"Welcome to Roasters Cafe API.">>,
         last_submission |-> None, defaults |-> None, options |-> <<>>],
        sheets)

form_page ==
    Handled(Request("GET /recebimiento", <<>>), FormPage, sheets)

submit_form ==
    \E f \in RecibimientoForms :
        LET r == SubmitForm(f, get_all_values("Recebimiento"))
        IN  /\ r.append => HasRoom
            /\ Handled(Request("POST /recebimiento", f), r.response,
                   IF r.append THEN append_row("Recebimiento", r.row)
                   ELSE sheets)

trillado_form_page ==
    Handled(Request("GET /trillado", <<>>),
        TrilladoFormPage(get_all_values("Recebimiento")), sheets)

trillado_submit_form ==
    \E f \in TrilladoForms :
        LET r == TrilladoSubmitForm(f, get_all_values("Recebimiento"),
                     get_all_values("Trillado"))
        IN  /\ r.append => HasRoom
            /\ Handled(Request("POST /trillado", f), r.response,
                   IF r.append THEN append_row("Trillado", r.row)
                   ELSE sheets)

perfilado_form_page ==
    Handled(Request("GET /perfilado", <<>>),
        PerfiladoFormPage(get_all_values("Trillado")), sheets)

perfilado_submit_form ==
    \E f \in PerfiladoForms :
        LET r == PerfiladoSubmitForm(f, get_all_values("Trillado"),
                     get_all_values("Perfilado"))
        IN  /\ r.append => HasRoom
            /\ Handled(Request("POST /perfilado", f), r.response,
                   IF r.append THEN append_row("Perfilado", r.row)
                   ELSE sheets)

\* ------------------------------------------------------------ first state

\* Header rows of the three worksheets (one name per column of the rows the
\* handlers append).
RecebimientoHeader ==
    << <<"id_recibimiento">>, <<"fecha">>, <<"provedor">>, <<"ciudad">>,
       <<"origen">>, <<"lote_bolsa">>, <<"cantidad_kg">>, <<"humedad">>,
       <<"motorista">>, <<"vehiculo_placa">>, <<"observacion">>,
       <<"libre_contaminacion">>, <<"vehiculo_sin_contaminacion">>,
       <<"buen_estado">>, <<"responsable">> >>

TrilladoHeader ==
    << <<"id_recibimiento">>, <<"fecha">>, <<"grano_num">>,
       <<"cantidad_kg">>, <<"observacion">>, <<"id_trillado">> >>

PerfiladoHeader ==
    [i \in 1..27 |-> IF i = 1 THEN <<"id_trillado">> ELSE <<"campo">>]

Workers == {"w1", "w2"}

NoRequest == Request("", <<>>)

\* No request has been answered yet.
NoResponse ==
    [status |-> 0, template |-> "", msg |-> None, last_submission |-> None,
     defaults |-> None, options |-> <<>>]

Start(stored) ==
    /\ sheets = stored
    /\ req = NoRequest
    /\ resp = NoResponse
    /\ inflight = [w \in Workers |-> Idle]

\* Each worksheet holds its header row and nothing else.
HeadersOnly ==
    [Recebimiento |-> <<RecebimientoHeader>>,
     Trillado |-> <<TrilladoHeader>>,
     Perfilado |-> <<PerfiladoHeader>>]

Init == Start(HeadersOnly)

Next ==
    \/ home
    \/ form_page
    \/ submit_form
    \/ trillado_form_page
    \/ trillado_submit_form
    \/ perfilado_form_page
    \/ perfilado_submit_form

Spec == Init /\ [][Next]_vars

\* ------------------------------ handlers, several requests at a time
\* Each worker is a server process running one POST handler.  A handler is
\* alone between two calls of the store and not across one: a step below is
\* the code from one store call up to the next.  main.py takes no lock and
\* the store offers none, so nothing orders the workers' calls.

Answer(w, request, response) ==
    /\ req' = request
    /\ resp' = response
    /\ inflight' = [inflight EXCEPT ![w] = Idle]

\* After the duplicate check: answer at once (duplicate, or an exception),
\* or go on to append_row.
Checked(w, endpoint, f, name, r) ==
    /\ r.append => HasRoom
    /\ UNCHANGED sheets
    /\ IF r.append
       THEN /\ inflight' = [inflight EXCEPT ![w] =
                   [pc |-> "append", endpoint |-> endpoint, form |-> f,
                    all_rows |-> <<>>, sheet |-> name, row |-> r.row,
                    response |-> r.response]]
            /\ UNCHANGED <<req, resp>>
       ELSE Answer(w, Request(endpoint, f), r.response)

\* submit_form up to sheet.append_row, main.py lines 91-115.
w_submit_form(w) ==
    /\ inflight[w].pc = "idle"
    /\ \E f \in RecibimientoForms :
           Checked(w, "POST /recebimiento", f, "Recebimiento",
               SubmitForm(f, get_all_values("Recebimiento")))

\* The first get_all_values of a handler that reads the upstream worksheet
\* for its dropdown, main.py lines 202-204 and 330-332.
ReadUpstream(w, endpoint, f, name, raises) ==
    /\ UNCHANGED sheets
    /\ IF raises
       THEN Answer(w, Request(endpoint, f), InternalServerError)
       ELSE /\ inflight' = [inflight EXCEPT ![w] =
                   [Idle EXCEPT !.pc = "check", !.endpoint = endpoint,
                                !.form = f,
                                !.all_rows = get_all_values(name)]]
            /\ UNCHANGED <<req, resp>>

w_trillado_read(w) ==
    /\ inflight[w].pc = "idle"
    /\ \E f \in TrilladoFormsOf(TypedRecibimientoIds) :
           ReadUpstream(w, "POST /trillado", f, "Recebimiento",
               IndexError(AfterHeader(get_all_values("Recebimiento"))))

\* trillado_submit_form from line 207 up to sheet_trillado.append_row.
w_trillado_check(w) ==
    /\ inflight[w].pc = "check"
    /\ inflight[w].endpoint = "POST /trillado"
    /\ Checked(w, "POST /trillado", inflight[w].form, "Trillado",
           TrilladoSubmitForm(inflight[w].form, inflight[w].all_rows,
               get_all_values("Trillado")))

w_perfilado_read(w) ==
    /\ inflight[w].pc = "idle"
    /\ \E i \in TypedTrilladoIds :
           ReadUpstream(w, "POST /perfilado", PerfiladoForm(i, 0),
               "Trillado", FALSE)

\* perfilado_submit_form from line 335 up to sheet_perfilado.append_row.
w_perfilado_check(w) ==
    /\ inflight[w].pc = "check"
    /\ inflight[w].endpoint = "POST /perfilado"
    /\ Checked(w, "POST /perfilado", inflight[w].form, "Perfilado",
           PerfiladoSubmitForm(inflight[w].form, inflight[w].all_rows,
               get_all_values("Perfilado")))

\* An append that looks at the worksheet again and skips a row whose
\* identifier has been stored since the check.
w_append_row_rechecked(w) ==
    /\ inflight[w].pc = "append"
    /\ LET name == inflight[w].sheet
           row == inflight[w].row
           k == IF name = "Trillado" THEN Len(row) ELSE 1
           stored == \E i \in 1..Len(sheets[name]) :
                         /\ Len(sheets[name][i]) >= k
                         /\ sheets[name][i][k] = row[k]
       IN  sheets' = IF stored THEN sheets ELSE append_row(name, row)
    /\ Answer(w, Request(inflight[w].endpoint, inflight[w].form),
           inflight[w].response)

\* append_row and the rest of the handler, main.py lines 116-160, 216-243
\* and 348-389.
w_append_row(w) ==
    /\ inflight[w].pc = "append"
    /\ sheets' = append_row(inflight[w].sheet, inflight[w].row)
    /\ Answer(w, Request(inflight[w].endpoint, inflight[w].form),
           inflight[w].response)

NextWorkers ==
    \E w \in Workers :
        \/ w_submit_form(w)
        \/ w_trillado_read(w)
        \/ w_trillado_check(w)
        \/ w_perfilado_read(w)
        \/ w_perfilado_check(w)
        \/ w_append_row(w)

SpecWorkers == Init /\ [][NextWorkers]_vars

\* ------------------------------------------- worksheets as found
\* The spreadsheet is edited outside the application, so a handler can find
\* a worksheet with no row, with no header, or with rows shorter than the
\* ones the handlers append.

ShortTrillado ==
    << << <<"id_recibimiento">> >>, << <<"A", "-", "C">> >> >>

\* A worksheet as found: header-only, no row at all, an empty row after the
\* header and, for Trillado, a one-column worksheet.
Found(name) ==
    {HeadersOnly[name], <<>>, <<HeadersOnly[name][1], <<>>>>}
        \cup (IF name = "Trillado" THEN {ShortTrillado} ELSE {})

\* One worksheet is as found, the others hold their header.
InitFound ==
    \E name \in Sheets :
        \E rows \in Found(name) :
            Start([HeadersOnly EXCEPT ![name] = rows])

SpecFound == InitFound /\ [][Next]_vars

\* ------------------------------------------------------------ properties

\* The rows after the first, with their positions kept.
DataRowIndexes(name) == 2..Len(sheets[name])

\* How many of rows hold id in cell k.
Count(id, rows, k) ==
    Cardinality({i \in 1..Len(rows) : Len(rows[i]) >= k /\ rows[i][k] = id})

IsPrefix(s, t) == Len(s) <= Len(t) /\ SubSeq(t, 1, Len(s)) = s

Rejected(response) ==
    /\ response.status = 200
    /\ response.msg[1] \in {"Ya esta registrado! ID: ",
                            "Ya esta registrado! ID Trillado: "}

Accepted(response) ==
    /\ response.status = 200
    /\ response.msg[1] \in {"Registered successfully! ID: ",
                            "Trillado registrado! ID Trillado: ",
                            "Perfilado registrado! ID Trillado: "}

\* C1.  Nothing between a worker's duplicate check and its append looks at
\* the worksheet again: a worker that passed the check appends its row
\* whatever the other workers stored in the meantime.  So two workers that
\* both checked before either appended both append, and two rows of one
\* worksheet carry one identifier (C1_DuplicateRows is reached).
C1_AppendIsNotRechecked ==
    [][\A w \in Workers :
           (inflight[w].pc = "append" /\ inflight'[w].pc # "append")
               => sheets'[inflight[w].sheet]
                      = Append(sheets[inflight[w].sheet], inflight[w].row)
      ]_vars

\* Two data rows of Recebimiento with one identifier, both workers done.
C1_DuplicateRows ==
    /\ \A w \in Workers : inflight[w].pc = "idle"
    /\ \E i, j \in DataRowIndexes("Recebimiento") :
           /\ i < j
           /\ sheets.Recebimiento[i][1] = sheets.Recebimiento[j][1]

\* C2.  Requests handled one at a time, from a header-only Recebimiento: no
\* two data rows of Recebimiento have the same identifier in column 0.
C2_UniqueRecibimientoIds ==
    \A i, j \in DataRowIndexes("Recebimiento") :
        i # j => sheets.Recebimiento[i][1] # sheets.Recebimiento[j][1]

\* Two data rows are stored and a further submission was just rejected.
C2_TwoRowsAndARejection ==
    /\ Len(sheets.Recebimiento) >= 3
    /\ req.endpoint = "POST /recebimiento"
    /\ Rejected(resp)

\* C3.  Requests handled one at a time, from a header-only Perfilado: no two
\* data rows of Perfilado have the same identifier in column 0; an accepted
\* submission stored the submitted Hulling identifier unchanged in column 0
\* of the last row; a rejected one left exactly one data row with it.
C3_OnePerfiladoPerTrilladoId ==
    /\ \A i, j \in DataRowIndexes("Perfilado") :
           i # j => sheets.Perfilado[i][1] # sheets.Perfilado[j][1]
    /\ (req.endpoint = "POST /perfilado" /\ Accepted(resp))
           => sheets.Perfilado[Len(sheets.Perfilado)][1]
                  = req.form.id_trillado
    /\ (req.endpoint = "POST /perfilado" /\ Rejected(resp))
           => Count(req.form.id_trillado, AfterHeader(sheets.Perfilado), 1)
                  = 1

\* Two Perfilado data rows are stored and a further submission was rejected.
C3_TwoRowsAndARejection ==
    /\ Len(sheets.Perfilado) >= 3
    /\ req.endpoint = "POST /perfilado"
    /\ Rejected(resp)

\* C4.  A POST /recebimiento whose derived identifier is in column 0 of no
\* row appends exactly one row, with the identifier in column 0, and answers
\* the success message that ends with the identifier; the identical form
\* submitted next is rejected, the worksheet is left as it was, and exactly
\* one row holds the identifier.
C4_AcceptedOnceThenRejected ==
    [][req'.endpoint = "POST /recebimiento" =>
          LET f == req'.form
              id == RemoveDashes(f.fecha) \o Upper(First3(f.provedor))
                        \o Upper(First3(f.origen)) \o <<"-">>
                        \o Upper(f.lote_bolsa)
              rows == sheets.Recebimiento
              after == sheets'.Recebimiento
          IN  /\ Count(id, rows, 1) = 0 =>
                     /\ Len(after) = Len(rows) + 1
                     /\ IsPrefix(rows, after)
                     /\ after[Len(after)][1] = id
                     /\ Count(id, after, 1) = 1
                     /\ resp'.msg = <<"Registered successfully! ID: ">> \o id
              /\ (req = req' /\ Accepted(resp)) =>
                     /\ Rejected(resp')
                     /\ after = rows
                     /\ Count(id, after, 1) = 1
      ]_vars

\* The identical form was submitted again and rejected; one row holds it.
C4_SecondSubmissionRejected ==
    /\ req.endpoint = "POST /recebimiento"
    /\ Rejected(resp)
    /\ Count(resp.last_submission.id_recibimiento, sheets.Recebimiento, 1) = 1
    /\ \E i \in DataRowIndexes("Recebimiento") :
           /\ sheets.Recebimiento[i][1] = resp.last_submission.id_recibimiento
           /\ sheets.Recebimiento[i][6] = req.form.lote_bolsa
           /\ sheets.Recebimiento[i][3] = req.form.provedor

\* The cell a handler compares: the last of a Trillado row, the first of
\* the others.
KeyCell(name, row) == IF name = "Trillado" THEN row[Len(row)] ELSE row[1]

SheetOf(endpoint) ==
    CASE endpoint = "POST /recebimiento" -> "Recebimiento"
      [] endpoint = "POST /trillado" -> "Trillado"
      [] endpoint = "POST /perfilado" -> "Perfilado"

Posts == {"POST /recebimiento", "POST /trillado", "POST /perfilado"}

Gets == {"GET /", "GET /recebimiento", "GET /trillado", "GET /perfilado"}

\* The identifier a submitted form derives.
IdOf(endpoint, f) ==
    CASE endpoint = "POST /recebimiento" ->
             RemoveDashes(f.fecha) \o Upper(First3(f.provedor))
                 \o Upper(First3(f.origen)) \o <<"-">> \o Upper(f.lote_bolsa)
      [] endpoint = "POST /trillado" ->
             f.id_recibimiento \o <<"-">> \o f.grano_num
      [] endpoint = "POST /perfilado" -> f.id_trillado

\* The rows a handler's duplicate check compares.
ComparedRows(name) ==
    IF name = "Recebimiento" THEN sheets[name] ELSE AfterHeader(sheets[name])

\* The handler reaches its duplicate check and finishes it (no row it
\* indexes is empty).
CheckCompletes(endpoint) ==
    /\ ~IndexError(ComparedRows(SheetOf(endpoint)))
    /\ endpoint = "POST /trillado"
           => ~IndexError(AfterHeader(sheets.Recebimiento))

\* The field values a response echoes for a form: the form's own, a checkbox
\* as "yes" or "no".
Echo(endpoint, f) ==
    [k \in DOMAIN f |->
        IF /\ endpoint = "POST /recebimiento"
           /\ k \in {"libre_contaminacion", "vehiculo_sin_contaminacion",
                     "buen_estado"}
        THEN (IF f[k] = Yes THEN Yes ELSE No)
        ELSE f[k]]

\* C5.  In each stage, a submission whose derived identifier the duplicate
\* check finds in the key column appends nothing (the three worksheets are
\* as before), answers the rejection message that names the identifier, and
\* echoes the attempted field values as last_submission and as defaults.
C5_DuplicateIsRejectedAndEchoed ==
    [][(req'.endpoint \in Posts /\ CheckCompletes(req'.endpoint)) =>
          LET e == req'.endpoint
              f == req'.form
              id == IdOf(e, f)
              found == \E i \in 1..Len(ComparedRows(SheetOf(e))) :
                           KeyCell(SheetOf(e), ComparedRows(SheetOf(e))[i])
                               = id
          IN  found =>
                  /\ sheets' = sheets
                  /\ Rejected(resp')
                  /\ SubSeq(resp'.msg, 2, Len(resp'.msg)) = id
                  /\ \A k \in DOMAIN f :
                         /\ resp'.last_submission[k] = Echo(e, f)[k]
                         /\ resp'.defaults[k] = Echo(e, f)[k]
      ]_vars

\* A Trillado submission was just rejected and its values echoed, while
\* both other worksheets hold a row that was accepted earlier or not.
C5_TrilladoRejection ==
    /\ req.endpoint = "POST /trillado"
    /\ Rejected(resp)
    /\ resp.defaults = req.form
    /\ \E i \in DataRowIndexes("Trillado") :
           /\ Len(sheets.Trillado[i]) = 6
           /\ sheets.Trillado[i][6] = resp.last_submission.id_trillado

\* C6.  In every stage the duplicate check leaves row 0 out: a submission
\* whose identifier is the key cell of no row after the first is accepted
\* and appended, whatever the first row holds.
C6_FirstRowIsNotCompared ==
    [][(req'.endpoint \in Posts /\ CheckCompletes(req'.endpoint)) =>
          LET e == req'.endpoint
              name == SheetOf(e)
              id == IdOf(e, req'.form)
              later == AfterHeader(sheets[name])
          IN  (\A i \in 1..Len(later) : KeyCell(name, later[i]) # id) =>
                  /\ Accepted(resp')
                  /\ Len(sheets'[name]) = Len(sheets[name]) + 1
                  /\ KeyCell(name, sheets'[name][Len(sheets'[name])]) = id
      ]_vars

\* C7.  The store is append-only: over every step each worksheet's rows are
\* an unchanged prefix of its rows afterwards and at most one row longer; a
\* form view changes no worksheet; a submission changes no worksheet but
\* its own stage's.
C7_AppendOnly ==
    [][/\ \A name \in Sheets :
              /\ IsPrefix(sheets[name], sheets'[name])
              /\ Len(sheets'[name]) <= Len(sheets[name]) + 1
              /\ sheets'[name] # sheets[name]
                     => (req'.endpoint \in Posts
                             /\ SheetOf(req'.endpoint) = name)
       /\ req'.endpoint \in Gets => sheets' = sheets
      ]_vars

\* Handlers appended to Trillado and to Perfilado, and a form view followed.
C7_RowsAppendedThenView ==
    /\ req.endpoint = "GET /perfilado"
    /\ \E i \in DataRowIndexes("Trillado") :
           /\ Len(sheets.Trillado[i]) = 6
           /\ sheets.Trillado[i][1] \in TypedRecibimientoIds
    /\ \E i \in DataRowIndexes("Perfilado") :
           /\ Len(sheets.Perfilado[i]) = 27
           /\ sheets.Perfilado[i][1] \in TypedTrilladoIds

\* C8.  Where a key column is taken from stored rows for the Hulling and the
\* Profiling handlers, a row too short for it is skipped and the request
\* ends without an error; the Profiling selection list holds the sixth cell
\* of the later Trillado rows that have one, and nothing else.
C8_ShortRowsAreSkipped ==
    /\ req.endpoint \in {"GET /trillado", "POST /trillado",
                         "GET /perfilado", "POST /perfilado"}
           => resp.status = 200
    /\ (req.endpoint \in {"GET /perfilado", "POST /perfilado"}
            /\ resp.status = 200)
           => \A id \in Range(resp.options) :
                  \E i \in DataRowIndexes("Trillado") :
                      /\ Len(sheets.Trillado[i]) > 5
                      /\ sheets.Trillado[i][6] = id

\* C9.  A Hulling submission whose derived identifier is the last cell of
\* no later Trillado row is accepted and its row appended, with no look at
\* Recebimiento; a Profiling submission whose identifier is the first cell
\* of no later Perfilado row is accepted and its row appended, with no look
\* at Trillado.
C9_NoReferentialCheck ==
    [][/\ req'.endpoint = "POST /trillado" =>
              LET f == req'.form
                  id == f.id_recibimiento \o <<"-">> \o f.grano_num
                  later == AfterHeader(sheets.Trillado)
              IN  (\A i \in 1..Len(later) : later[i][Len(later[i])] # id) =>
                      /\ Accepted(resp')
                      /\ Len(sheets'.Trillado) = Len(sheets.Trillado) + 1
                      /\ sheets'.Trillado[Len(sheets'.Trillado)][1]
                             = f.id_recibimiento
                      /\ sheets'.Trillado[Len(sheets'.Trillado)][6] = id
       /\ req'.endpoint = "POST /perfilado" =>
              LET f == req'.form
                  later == AfterHeader(sheets.Perfilado)
              IN  (\A i \in 1..Len(later) : later[i][1] # f.id_trillado) =>
                      /\ Accepted(resp')
                      /\ Len(sheets'.Perfilado) = Len(sheets.Perfilado) + 1
                      /\ sheets'.Perfilado[Len(sheets'.Perfilado)][1]
                             = f.id_trillado
      ]_vars

\* A Trillado row names a Receiving identifier no Recebimiento row has, and
\* a Perfilado row names a Hulling identifier no Trillado row has.
C9_DanglingReferences ==
    /\ \E i \in DataRowIndexes("Trillado") :
           Count(sheets.Trillado[i][1], sheets.Recebimiento, 1) = 0
    /\ \E i \in DataRowIndexes("Perfilado") :
           Count(sheets.Perfilado[i][1], sheets.Trillado, 6) = 0

\* C10.  A Hulling submission is rejected only if a later Trillado row
\* records the same pair (Receiving identifier, grain batch number).
C10_RejectedOnlyForSamePair ==
    (req.endpoint = "POST /trillado" /\ Rejected(resp)) =>
        \E i \in DataRowIndexes("Trillado") :
            /\ sheets.Trillado[i][1] = req.form.id_recibimiento
            /\ sheets.Trillado[i][3] = req.form.grano_num

====
